---------------------------- MODULE Spec2Model ----------------------------
(***************************************************************************)
(* A model of app.py: the function read_pdf and the Streamlit script that  *)
(* calls it.                                                               *)
(*                                                                         *)
(* Strings are sequences of fragments.  A fragment is a piece of text that *)
(* holds no newline, except the fragment NL, which is the newline          *)
(* character itself.  The bytes of a stream are represented by what they   *)
(* encode for the parser: a Word document with its paragraphs, or one of   *)
(* the kinds of content on which docx.Document raises.                     *)
(*                                                                         *)
(* Two programs use read_pdf.  Spec is a caller that applies read_pdf to a *)
(* drawn stream and then a second time, to the same stream object or to an *)
(* independently constructed stream with the same bytes.  SpecScript is    *)
(* the script of app.py, lines 21-34, run once per user interaction.       *)
(***************************************************************************)
EXTENDS Naturals, Sequences, FiniteSets

VARIABLES
    streams,        \* the stream objects: id -> [id, name, bytes, pos] or NoStream
    pc,             \* position of the running program
    caller,         \* where read_pdf returns to
    file,           \* read_pdf's parameter: the id of the stream
    doc,            \* read_pdf's local doc: the paragraphs of the opened document
    full_text,      \* read_pdf's local full_text
    idx,            \* position of the for loop in doc.paragraphs
    exc,            \* the exception bound to e in the except clause
    ret,            \* the value read_pdf returned last
    propagated,     \* the exception that left read_pdf, if one did
    raised,         \* history: the exception raised inside the current call
    called,         \* history: the stream the current or last call was made on
    mode,           \* caller of Spec: how the second stream was obtained
    r1, r2,         \* caller of Spec: the results of the two calls
    widget,         \* script: the upload the file_uploader widget holds
    uploaded_file,  \* script: the global uploaded_file
    pdf_text,       \* script: the global pdf_text
    printed,        \* script: what this run wrote to the console
    display,        \* script: the text area this run put on the page
    calls,          \* history: read_pdf invocations made by this run
    run             \* script: the number of the run

vars == <<streams, pc, caller, file, doc, full_text, idx, exc, ret, propagated,
          raised, called, mode, r1, r2, widget, uploaded_file, pdf_text,
          printed, display, calls, run>>

rpVars == <<file, doc, full_text, idx, exc>>
callerVars == <<mode, r1, r2>>
scriptVars == <<widget, uploaded_file, pdf_text, printed, display, calls, run>>

---------------------------------------------------------------------------
(* Bounds *)

MaxParas == 3
MaxRuns == 3

---------------------------------------------------------------------------
(* Strings and values *)

NL == "\n"
Empty == <<>>
Hello == <<"H", "e", "l", "l", "o">>
World == <<"W", "o", "r", "l", "d">>
\* the text of a paragraph that holds a line break: paragraph.text gives "a\nb"
WithBreak == <<"a", NL, "b">>

ParaTexts == {Empty, Hello, World, WithBreak}

StrVal(s) == [type |-> "str", s |-> s]
None == [type |-> "NoneType", s |-> <<>>]

---------------------------------------------------------------------------
(* Exceptions *)

NoExc == [cls |-> "none", args |-> <<>>]
Exc(c, a) == [cls |-> c, args |-> a]

\* the base class of each exception class that occurs
Parent(c) ==
    CASE c = "BadZipFile" -> "Exception"
      [] c = "EOFError" -> "Exception"
      [] c = "ValueError" -> "Exception"
      [] c = "AttributeError" -> "Exception"
      [] c = "Exception" -> "BaseException"
      [] OTHER -> "object"

RECURSIVE IsSubclass(_, _)
IsSubclass(c, base) ==
    IF c = base THEN TRUE
    ELSE IF c = "object" THEN FALSE
    ELSE IsSubclass(Parent(c), base)

\* str(e): an exception made without arguments gives the empty string, one
\* made with a single argument gives that argument
Str(e) == IF Len(e.args) = 0 THEN Empty ELSE e.args[1]

CatchesValueErrorOnly(e) == IsSubclass(e.cls, "ValueError")

\* `except Exception as e`
Catches(e) == IsSubclass(e.cls, "Exception")

---------------------------------------------------------------------------
(* Documents and streams *)

Para(t) == [ok |-> TRUE, text |-> t, exc |-> NoExc]
\* a paragraph whose text cannot be read
BadPara == [ok |-> FALSE, text |-> Empty,
            exc |-> Exc("AttributeError", << <<"'NoneType' object has no attribute 'text'">> >>)]

ParaEntries == {Para(t) : t \in ParaTexts} \cup {BadPara}

Docs == UNION {[1..n -> ParaEntries] : n \in 0..MaxParas}

Word(ps) == [kind |-> "docx", paragraphs |-> ps]
NotZip == [kind |-> "notzip", paragraphs |-> <<>>]
Truncated == [kind |-> "truncated", paragraphs |-> <<>>]
NotWord == [kind |-> "notword", paragraphs |-> <<>>]

Contents == {Word(ps) : ps \in Docs} \cup {NotZip, Truncated, NotWord}

\* the extensions the uploader accepts
Names == {"x.pdf", "x.docx"}
StreamIds == {"f1", "f2"}

NoStream == [id |-> "none", name |-> "", bytes |-> NotZip, pos |-> "start"]
NewStream(i, n, b) == [id |-> i, name |-> n, bytes |-> b, pos |-> "start"]

\* str(stream), which the % formatting of an error message applies to it
Repr(s) == <<"UploadedFile(file_id=", s.id, ", name=", s.name, ")">>


StreamBytesFromPosition(s) == IF s.pos = "start" THEN s.bytes ELSE NotZip

\* The bytes the parser sees.  Document hands the stream to zipfile, which
\* finds the archive's directory from the end of the stream and reads every
\* member at its absolute offset: the position the stream is at plays no part.
StreamBytes(s) == s.bytes

\* docx.Document(file): the paragraphs of the document, or the exception the
\* content makes it raise.
\*   not a zip archive   BadZipFile("File is not a zip file")
\*   member cut short    EOFError()
\*   a package whose main part is not a Word document
\*                       ValueError("file '%s' is not a Word file, content
\*                                   type is '%s'" % (file, content_type))
Document(s) ==
    LET b == StreamBytes(s) IN
    CASE b.kind = "docx" -> [raised |-> NoExc, paragraphs |-> b.paragraphs]
      [] b.kind = "notzip" ->
            [raised |-> Exc("BadZipFile", << <<"File is not a zip file">> >>),
             paragraphs |-> <<>>]
      [] b.kind = "truncated" ->
            [raised |-> Exc("EOFError", <<>>), paragraphs |-> <<>>]
      [] OTHER ->
            [raised |-> Exc("ValueError",
                            << <<"file '">> \o Repr(s)
                               \o <<"' is not a Word file, content type is '",
                                    "application/vnd.openxmlformats-officedocument.spreadsheetml.sheet.main+xml", "'">> >>),
             paragraphs |-> <<>>]

AfterReadDrained(s) == [s EXCEPT !.pos = "moved", !.bytes = NotZip]

\* the stream once the parser has read from it: only its position has moved
AfterRead(s) == [s EXCEPT !.pos = "moved"]

---------------------------------------------------------------------------
(* read_pdf *)

RECURSIVE PyJoinTrailing(_, _)
PyJoinTrailing(sep, items) ==
    IF items = <<>> THEN Empty
    ELSE Head(items) \o sep \o PyJoinTrailing(sep, Tail(items))

\* sep.join(items)
RECURSIVE PyJoin(_, _)
PyJoin(sep, items) ==
    IF items = <<>> THEN Empty
    ELSE IF Len(items) = 1 THEN Head(items)
    ELSE Head(items) \o sep \o PyJoin(sep, Tail(items))

AppendNonEmpty(ft, p) == IF p.text = Empty THEN ft ELSE Append(ft, p.text)

\* full_text.append(paragraph.text)
AppendText(ft, p) == Append(ft, p.text)

ExceptPartial(e, ft) == PyJoin(<<NL>>, ft)

\* return str(e)
ExceptResult(e, ft) == Str(e)

InReadPdf == pc \in {"rp_open", "rp_loop", "rp_except"}

\* entering read_pdf(file) from a caller that continues at retpc
Call(id, retpc) ==
    /\ pc' = "rp_open"
    /\ caller' = retpc
    /\ file' = id
    /\ doc' = <<>>
    /\ full_text' = <<>>
    /\ idx' = 0
    /\ exc' = NoExc
    /\ raised' = NoExc
    /\ called' = id

\* leaving read_pdf: its frame is gone
Leave ==
    /\ file' = "none"
    /\ doc' = <<>>
    /\ full_text' = <<>>
    /\ idx' = 0
    /\ exc' = NoExc

\* doc = Document(file); full_text = []
Open ==
    /\ pc = "rp_open"
    /\ streams' = [streams EXCEPT ![file] = AfterRead(@)]
    /\ LET r == Document(streams[file]) IN
       IF r.raised = NoExc
       THEN /\ doc' = r.paragraphs
            /\ full_text' = <<>>
            /\ idx' = 1
            /\ pc' = "rp_loop"
            /\ UNCHANGED <<exc, raised>>
       ELSE /\ exc' = r.raised
            /\ raised' = r.raised
            /\ pc' = "rp_except"
            /\ UNCHANGED <<doc, full_text, idx>>
    /\ UNCHANGED <<caller, file, ret, propagated, called>>
    /\ UNCHANGED <<callerVars, scriptVars>>

\* one turn of `for paragraph in doc.paragraphs`
Loop ==
    /\ pc = "rp_loop"
    /\ idx <= Len(doc)
    /\ IF doc[idx].ok
       THEN /\ full_text' = AppendText(full_text, doc[idx])
            /\ idx' = idx + 1
            /\ UNCHANGED <<pc, exc, raised>>
       ELSE /\ exc' = doc[idx].exc
            /\ raised' = doc[idx].exc
            /\ pc' = "rp_except"
            /\ UNCHANGED <<full_text, idx>>
    /\ UNCHANGED <<streams, caller, file, doc, ret, propagated, called>>
    /\ UNCHANGED <<callerVars, scriptVars>>

\* return '\n'.join(full_text)
ReturnJoined ==
    /\ pc = "rp_loop"
    /\ idx > Len(doc)
    /\ ret' = StrVal(PyJoin(<<NL>>, full_text))
    /\ pc' = caller
    /\ Leave
    /\ UNCHANGED <<streams, caller, propagated, raised, called>>
    /\ UNCHANGED <<callerVars, scriptVars>>

\* except Exception as e: return str(e)
Except ==
    /\ pc = "rp_except"
    /\ IF Catches(exc)
       THEN /\ ret' = StrVal(ExceptResult(exc, full_text))
            /\ pc' = caller
            /\ UNCHANGED propagated
       ELSE /\ propagated' = exc
            /\ pc' = "crashed"
            /\ UNCHANGED ret
    /\ Leave
    /\ UNCHANGED <<streams, caller, raised, called>>
    /\ UNCHANGED <<callerVars, scriptVars>>

---------------------------------------------------------------------------
(* A caller applying read_pdf twice *)

IdleScript ==
    /\ widget = "none"
    /\ uploaded_file = "none"
    /\ pdf_text = None
    /\ printed = Empty
    /\ display = None
    /\ calls = 0
    /\ run = 0

IdleReadPdf ==
    /\ caller = "none"
    /\ file = "none"
    /\ doc = <<>>
    /\ full_text = <<>>
    /\ idx = 0
    /\ exc = NoExc
    /\ ret = None
    /\ propagated = NoExc
    /\ raised = NoExc
    /\ called = "none"

Init ==
    /\ \E n \in Names, b \in Contents :
          streams = [i \in StreamIds |->
                        IF i = "f1" THEN NewStream("f1", n, b) ELSE NoStream]
    /\ pc = "h_start"
    /\ mode = "none"
    /\ r1 = None
    /\ r2 = None
    /\ IdleReadPdf
    /\ IdleScript

\* read_pdf(s1)
FirstCall ==
    /\ pc = "h_start"
    /\ Call("f1", "h_got1")
    /\ UNCHANGED <<streams, ret, propagated, callerVars, scriptVars>>

\* r1 is kept; read_pdf(s1) again, the stream left as the first call left it
SecondCallSame ==
    /\ pc = "h_got1"
    /\ r1' = ret
    /\ mode' = "same"
    /\ Call("f1", "h_got2")
    /\ UNCHANGED <<streams, ret, propagated, r2, scriptVars>>

\* r1 is kept; a second stream is built over the same bytes; read_pdf(s2)
SecondCallCopy ==
    /\ pc = "h_got1"
    /\ r1' = ret
    /\ mode' = "copy"
    /\ \E n \in Names :
          streams' = [streams EXCEPT !["f2"] = NewStream("f2", n, streams["f1"].bytes)]
    /\ Call("f2", "h_got2")
    /\ UNCHANGED <<ret, propagated, r2, scriptVars>>

StoreSecond ==
    /\ pc = "h_got2"
    /\ r2' = ret
    /\ pc' = "h_done"
    /\ UNCHANGED <<streams, caller, rpVars, ret, propagated, raised, called>>
    /\ UNCHANGED <<mode, r1, scriptVars>>

Next == FirstCall \/ SecondCallSame \/ SecondCallCopy \/ StoreSecond
        \/ Open \/ Loop \/ ReturnJoined \/ Except

Spec == Init /\ [][Next]_vars

---------------------------------------------------------------------------
(* The script, lines 21-34, run from the top at every user interaction *)

InitScript ==
    /\ streams = [i \in StreamIds |-> NoStream]
    /\ pc = "s_title"
    /\ mode = "none"
    /\ r1 = None
    /\ r2 = None
    /\ IdleReadPdf
    /\ widget = "none"
    /\ uploaded_file = "none"
    /\ pdf_text = None
    /\ printed = Empty
    /\ display = None
    /\ calls = 0
    /\ run = 1

\* st.title(...)
Title ==
    /\ pc = "s_title"
    /\ pc' = "s_uploader"
    /\ UNCHANGED <<streams, caller, rpVars, ret, propagated, raised, called>>
    /\ UNCHANGED <<callerVars, scriptVars>>

\* uploaded_file = st.file_uploader(...): the upload the widget holds, or None
FileUploader ==
    /\ pc = "s_uploader"
    /\ uploaded_file' = widget
    /\ pc' = "s_if"
    /\ UNCHANGED <<streams, caller, rpVars, ret, propagated, raised, called>>
    /\ UNCHANGED <<callerVars, widget, pdf_text, printed, display, calls, run>>

\* `if uploaded_file is not None` is false: the script ends
NoUpload ==
    /\ pc = "s_if"
    /\ uploaded_file = "none"
    /\ pc' = "s_end"
    /\ UNCHANGED <<streams, caller, rpVars, ret, propagated, raised, called>>
    /\ UNCHANGED <<callerVars, scriptVars>>

\* `if uploaded_file is not None` is true: read_pdf(uploaded_file) is entered
CallReadPdf ==
    /\ pc = "s_if"
    /\ uploaded_file # "none"
    /\ Call(uploaded_file, "s_assign")
    /\ calls' = calls + 1
    /\ UNCHANGED <<streams, ret, propagated>>
    /\ UNCHANGED <<callerVars, widget, uploaded_file, pdf_text, printed, display, run>>

\* pdf_text = <the value read_pdf returned>
AssignPdfText ==
    /\ pc = "s_assign"
    /\ pdf_text' = ret
    /\ pc' = "s_print"
    /\ UNCHANGED <<streams, caller, rpVars, ret, propagated, raised, called>>
    /\ UNCHANGED <<callerVars, widget, uploaded_file, printed, display, calls, run>>

PrintedMarked(text) == <<"?">> \o text.s \o <<NL>>

\* what print(text) writes: the string, then print's line end
Printed(text) == text.s \o <<NL>>

\* print(pdf_text)
PrintPdfText ==
    /\ pc = "s_print"
    /\ printed' = printed \o Printed(pdf_text)
    /\ pc' = "s_text_area"
    /\ UNCHANGED <<streams, caller, rpVars, ret, propagated, raised, called>>
    /\ UNCHANGED <<callerVars, widget, uploaded_file, pdf_text, display, calls, run>>

\* st.text_area(label, pdf_text): the text area shows its value argument
TextArea ==
    /\ pc = "s_text_area"
    /\ display' = pdf_text
    /\ pc' = "s_end"
    /\ UNCHANGED <<streams, caller, rpVars, ret, propagated, raised, called>>
    /\ UNCHANGED <<callerVars, widget, uploaded_file, pdf_text, printed, calls, run>>

OtherSlot == IF widget = "f1" THEN "f2" ELSE "f1"

\* the script starts again from the top with fresh globals and a fresh page
Restart ==
    /\ pc = "s_end"
    /\ run < MaxRuns
    /\ run' = run + 1
    /\ pc' = "s_title"
    /\ uploaded_file' = "none"
    /\ pdf_text' = None
    /\ printed' = Empty
    /\ display' = None
    /\ calls' = 0
    /\ ret' = None
    /\ raised' = NoExc
    /\ called' = "none"
    /\ UNCHANGED <<caller, rpVars, propagated, callerVars>>

\* the user uploads a file: the widget holds a new stream
Upload ==
    /\ Restart
    /\ \E n \in Names, b \in Contents :
          streams' = [i \in StreamIds |->
                         IF i = OtherSlot THEN NewStream(i, n, b) ELSE NoStream]
    /\ widget' = OtherSlot

\* the user removes the upload
Remove ==
    /\ Restart
    /\ widget # "none"
    /\ streams' = [i \in StreamIds |-> NoStream]
    /\ widget' = "none"

\* an interaction that leaves the upload in place: the widget gives the same
\* upload again, rewound or as the last run left it
Rerun ==
    /\ Restart
    /\ widget # "none"
    /\ \E p \in {"start", streams[widget].pos} :
          streams' = [streams EXCEPT ![widget].pos = p]
    /\ UNCHANGED widget

NextScript == Title \/ FileUploader \/ NoUpload \/ CallReadPdf \/ AssignPdfText
              \/ PrintPdfText \/ TextArea \/ Upload \/ Remove \/ Rerun
              \/ Open \/ Loop \/ ReturnJoined \/ Except

SpecScript == InitScript /\ [][NextScript]_vars

---------------------------------------------------------------------------
(* What the claims speak of *)

\* read_pdf has just returned to its caller, and ret holds what it returned
Returned == pc \in {"h_got1", "h_got2", "s_assign"}

CalledStream == streams[called]
CalledParagraphs == CalledStream.bytes.paragraphs

TextsOf(ps) == [i \in 1..Len(ps) |-> ps[i].text]
AllReadable(ps) == \A i \in 1..Len(ps) : ps[i].ok

\* the texts collected before the first paragraph that cannot be read
RECURSIVE ReadablePrefix(_)
ReadablePrefix(ps) ==
    IF ps = <<>> THEN <<>>
    ELSE IF ~Head(ps).ok THEN <<>>
    ELSE <<Head(ps).text>> \o ReadablePrefix(Tail(ps))

\* where the i-th text starts in the join of ts: after the texts before it
\* and one separator for each
RECURSIVE Offset(_, _)
Offset(ts, i) == IF i = 1 THEN 0 ELSE Offset(ts, i - 1) + Len(ts[i - 1]) + 1

\* s is ts[1] NL ts[2] NL ... NL ts[N], stated position by position
IsNewlineJoin(s, ts) ==
    LET N == Len(ts) IN
    /\ Len(s) = IF N = 0 THEN 0 ELSE Offset(ts, N) + Len(ts[N])
    /\ \A i \in 1..N :
          SubSeq(s, Offset(ts, i) + 1, Offset(ts, i) + Len(ts[i])) = ts[i]
    /\ \A i \in 1..(N - 1) : s[Offset(ts, i) + Len(ts[i]) + 1] = NL

\* s.split("\n"): the segments between the newlines of s, at least one
RECURSIVE SplitFrom(_, _, _)
SplitFrom(s, cur, acc) ==
    IF s = <<>> THEN Append(acc, cur)
    ELSE IF Head(s) = NL THEN SplitFrom(Tail(s), <<>>, Append(acc, cur))
    ELSE SplitFrom(Tail(s), Append(cur, Head(s)), acc)

PySplit(s) == SplitFrom(s, <<>>, <<>>)

HasNewline(t) == \E k \in 1..Len(t) : t[k] = NL

---------------------------------------------------------------------------
(* C1: no failure raised while opening the document or walking its          *)
(* paragraphs leaves read_pdf; the call returns str of that failure.        *)
C1_FailuresCaught ==
    /\ propagated = NoExc
    /\ pc # "crashed"
    /\ (Returned /\ raised # NoExc) => ret = StrVal(Str(raised))

C1_Witness ==
    /\ Returned
    /\ raised.cls = "BadZipFile"
    /\ ret.s = <<"File is not a zip file">>

(* C2: on success read_pdf returns the paragraph texts in document order    *)
(* with one newline between consecutive texts and none before or after;     *)
(* ["Hello", "", "World"] gives "Hello\n\nWorld", no paragraph gives "".    *)
C2_JoinedByNewlines ==
    (Returned /\ raised = NoExc) =>
        LET ts == TextsOf(CalledParagraphs) IN
        /\ ret.type = "str"
        /\ IsNewlineJoin(ret.s, ts)
        /\ ts = <<Hello, Empty, World>> =>
              ret.s = <<"H", "e", "l", "l", "o", NL, NL, "W", "o", "r", "l", "d">>
        /\ ts = <<>> => ret.s = Empty

C2_Witness ==
    /\ Returned
    /\ raised = NoExc
    /\ TextsOf(CalledParagraphs) = <<Hello, Empty, World>>

(* C3: what read_pdf returns is a string, and it is the join of ALL the     *)
(* paragraph texts or the description of the failure; after a failure the   *)
(* texts collected so far are not what is returned.                         *)
C3_AllOrFailure ==
    Returned =>
        /\ ret.type = "str"
        /\ IF raised = NoExc
           THEN /\ CalledStream.bytes.kind = "docx"
                /\ AllReadable(CalledParagraphs)
                /\ IsNewlineJoin(ret.s, TextsOf(CalledParagraphs))
           ELSE /\ ret.s = Str(raised)
                /\ ReadablePrefix(CalledParagraphs) # <<>> =>
                      ret.s # PyJoin(<<NL>>, ReadablePrefix(CalledParagraphs))

C3_Witness ==
    /\ Returned
    /\ raised # NoExc
    /\ ReadablePrefix(CalledParagraphs) = <<Hello, World>>

(* C4, as claimed: for any N paragraphs of any texts, splitting the output  *)
(* on newline gives exactly N segments, the i-th the i-th paragraph's text. *)
C4_SplitGivesParagraphs ==
    (Returned /\ raised = NoExc) => PySplit(ret.s) = TextsOf(CalledParagraphs)

(* C4, amended: for N >= 1 paragraphs none of whose texts holds a newline,  *)
(* splitting the output on newline gives exactly N segments, the i-th the   *)
(* i-th paragraph's text.                                                   *)
C4_SplitGivesParagraphsAmended ==
    (Returned /\ raised = NoExc) =>
        LET ts == TextsOf(CalledParagraphs) IN
        (Len(ts) >= 1 /\ \A i \in 1..Len(ts) : ~HasNewline(ts[i])) =>
            /\ Len(PySplit(ret.s)) = Len(ts)
            /\ \A i \in 1..Len(ts) : PySplit(ret.s)[i] = ts[i]

C4_Witness ==
    /\ Returned
    /\ raised = NoExc
    /\ TextsOf(CalledParagraphs) = <<Empty, World, Empty>>
    /\ Len(PySplit(ret.s)) = Len(CalledParagraphs)

(* C5: for every stream that is not a valid document read_pdf returns a     *)
(* non-empty string and does not raise.                                     *)
C5_FailureNonEmpty ==
    /\ propagated = NoExc
    /\ (Returned /\ CalledStream.bytes.kind # "docx") =>
          (ret.type = "str" /\ ret.s # Empty)

(* C6: two independently constructed streams with identical bytes give      *)
(* identical results, on success and on failure.                            *)
C6_Deterministic ==
    (pc = "h_done" /\ mode = "copy") => r1 = r2

(* C7: two calls in succession on the same stream object, which is not      *)
(* reset in between, return the same string.                                *)
C7_SameStreamTwice ==
    (pc = "h_done" /\ mode = "same") => r1 = r2

C7_Witness ==
    /\ pc = "h_done"
    /\ mode = "same"
    /\ streams["f1"].pos = "moved"
    /\ streams["f1"].bytes.kind = "docx"
    /\ r2.s = WithBreak \o <<NL>> \o Hello

(* C8: a step of read_pdf changes nothing of a stream but its position,     *)
(* changes no variable of its caller, and when it leaves, its parameter and *)
(* its locals (the stream, the document) are gone.                          *)
C8_OnlyReads ==
    [][InReadPdf =>
          /\ \A i \in StreamIds :
                /\ streams'[i].bytes = streams[i].bytes
                /\ streams'[i].name = streams[i].name
                /\ streams'[i].id = streams[i].id
          /\ UNCHANGED <<callerVars, scriptVars>>
          /\ ~InReadPdf' =>
                (file' = "none" /\ doc' = <<>> /\ full_text' = <<>> /\ exc' = NoExc)]_vars

C8_Witness ==
    /\ pc = "h_got1"
    /\ CalledStream.pos = "moved"
    /\ CalledStream.bytes = Word(<<Para(Hello)>>)
    /\ file = "none"

(* C9: two uploads with identical bytes, one declared pdf and one declared  *)
(* docx, give the same string.                                              *)
C9_ExtensionIgnored ==
    (/\ pc = "h_done"
     /\ mode = "copy"
     /\ streams["f1"].name # streams["f2"].name) => r1 = r2

(* C10: a run without an upload calls read_pdf never and outputs nothing; a *)
(* run with an upload calls it exactly once on that upload, nothing is      *)
(* output before the call has returned, the console is written before the   *)
(* page, and the console (one print) and the text area both hold the string *)
(* returned, unmodified, which is the outcome for the current upload.       *)
C10_Pipeline ==
    /\ (InReadPdf \/ pc \in {"s_title", "s_uploader", "s_if", "s_assign"}) =>
          (printed = Empty /\ display = None)
    /\ display # None => printed # Empty
    /\ calls <= 1
    /\ (pc = "s_end" /\ uploaded_file = "none") =>
          (calls = 0 /\ printed = Empty /\ display = None)
    /\ (pc = "s_end" /\ uploaded_file # "none") =>
          /\ calls = 1
          /\ called = uploaded_file
          /\ uploaded_file = widget
          /\ ret.type = "str"
          /\ printed = ret.s \o <<NL>>
          /\ display = ret
          /\ IF raised = NoExc
             THEN IsNewlineJoin(display.s, TextsOf(streams[widget].bytes.paragraphs))
             ELSE display.s = Str(raised)

C10_Witness ==
    /\ pc = "s_end"
    /\ run = 3
    /\ uploaded_file = "f2"
    /\ raised = NoExc
    /\ display = StrVal(World \o <<NL>> \o Hello)
    /\ printed = World \o <<NL>> \o Hello \o <<NL>>

===========================================================================
